---- MODULE Spec2Model ----
(***************************************************************************)
(* A model of the SARIT_PDS detection system:                              *)
(*   - watchdog_service.py: DetectionSystemWatchdog, the supervision loop  *)
(*     run(), its helpers and the signal handler that interrupts it;       *)
(*   - combined_detection_depth_uvc.py: FrameProcessor (two bounded        *)
(*     queues and the detection worker thread), the real-time loop of      *)
(*     main(), play_alert_sound and send_to_emulator.                      *)
(*                                                                         *)
(* The two programs are separate processes and are checked under separate  *)
(* specifications (WatchdogSpec, PipelineSpec); functions that are claimed *)
(* about as functions have a specification that feeds them their inputs    *)
(* (ShouldRestartSpec, AlertSpec).                                         *)
(***************************************************************************)
EXTENDS Integers, Sequences, FiniteSets, TLC

\* ------------------------------------------------------------------ bounds
\* Largest value of --max-restarts explored (besides "unset").
MaxCap == 2
\* Successful Popen calls explored in one supervisor lifetime.
MaxSpawn == 3
\* Shutdown signals delivered in one supervisor lifetime (2 allows a handler
\* to interrupt a handler).
MaxSignals == 2
\* restart_count values fed to should_restart() as a function.
MaxCount == 4
\* Frames the camera delivers in one run of main().
MaxFrames == 3
\* DangerStates fed to play_alert_sound as a function.
MaxFeed == 5

\* Python's None, for self.process and self.max_restarts.
None == -1

VARIABLES
  \* ---- DetectionSystemWatchdog (watchdog_service.py)
  running,        \* self.running
  process,        \* self.process: None or the id of the child it refers to
  restart_count,  \* self.restart_count
  max_restarts,   \* self.max_restarts: None (unlimited) or an integer
  stack,          \* control stack of the main thread: frame 1 is run(), the
                  \* frames above it are signal_handler activations
  alive,          \* the children (ids) that have not exited
  spawned,        \* children spawned so far (successful Popen calls)
  nsig,           \* shutdown signals delivered so far
  \* ---- history of the watchdog's observable calls
  term_req,       \* children on which terminate() was called
  kill_req,       \* children on which kill() was called
  grace_expired,  \* children whose wait(timeout=10) raised TimeoutExpired
  stopped,        \* children a stop_process() call on them has returned for
  cap_logged,     \* "Maximum restart limit reached" was logged
  sig_spawned,    \* value of spawned when a signal handler first returned
  sr,             \* the last should_restart() call: its inputs and result
  since,          \* the waits of run() since the latest child start (or
                  \* since run() began)
  last_start,     \* the value of since at the latest child start
  \* ---- FrameProcessor and main() (combined_detection_depth_uvc.py)
  rgb_queue,      \* self.rgb_queue, Queue(maxsize=2): frames, oldest first
  result_queue,   \* self.result_queue, Queue(maxsize=2): results, oldest first
  fp_running,     \* FrameProcessor.running
  wpc,            \* program point of the detection worker thread
  wframe,         \* the worker's rgb_frame (a frame number), None if none
  wdets,          \* the worker's detections
  mpc,            \* program point of the real-time loop of main()
  nframes,        \* frames the camera has delivered so far
  current_detections,     \* main()'s current_detections
  has_detections,         \* main()'s has_detections
  current_playing_sound,  \* the global of that name: "None" or "chiller"
  sound_enabled,          \* the global of that name
  emulator_enabled,       \* the global of that name
  \* ---- history of the pipeline's observable calls
  play_calls,     \* CHILLER_SOUND.play(loops=-1) calls so far
  stop_calls,     \* pygame.mixer.stop() calls so far
  sent,           \* datagrams handed to sendto() in the current cycle
  fed,            \* the DangerStates play_alert_sound was called with
  last_completed, \* frame number of the result the worker completed and
                  \* queued last
  last_read,      \* the last result get_latest_detection() returned, and
                  \* what last_completed was then
  raised,         \* frames on which the classifier raised
  offered,        \* results that reached the result-queue push (293-294)
  last_add,       \* the last add_rgb_frame(): queue before, frame, queue after
  completed,      \* frame numbers of the results, in the order the worker
                  \* completed them (line 291 returned)
  reads           \* frame numbers of the results get_latest_detection()
                  \* returned, in the order of the calls

wvars == <<running, process, restart_count, max_restarts, stack, alive,
           spawned, nsig, term_req, kill_req, grace_expired, stopped,
           cap_logged, sig_spawned, sr, since, last_start>>

pvars == <<rgb_queue, result_queue, fp_running, wpc, wframe, wdets, mpc,
           nframes, current_detections, has_detections, current_playing_sound,
           sound_enabled, emulator_enabled, play_calls, stop_calls, sent, fed,
           last_completed, last_read, raised, offered, last_add, completed,
           reads>>

vars == <<wvars, pvars>>

\* ---------------------------------------------------------------- helpers
Max(a, b) == IF a >= b THEN a ELSE b

Frame(p, o) == [pc |-> p, obj |-> o]
Top == stack[Len(stack)]
MainPc == stack[1].pc
InHandler == Len(stack) > 1

\* Move the running frame to program point p; o is the object a blocking
\* call of that frame is bound to (the Popen object wait() was called on).
GotoObj(p, o) == stack' = [stack EXCEPT ![Len(stack)] = Frame(p, o)]
Goto(p) == GotoObj(p, None)
\* The same, keeping the object the frame holds.
Step(p) == GotoObj(p, Top.obj)

\* No wait yet: delay is a completed sleep of line 203, ordered says that it
\* began after the latest child's exit was detected at line 144, failwait is
\* a completed sleep of line 209.
NoWait == [delay |-> FALSE, ordered |-> FALSE, detected |-> FALSE,
           failwait |-> FALSE]

NoCall == [called |-> FALSE, running |-> FALSE, count |-> 0, maxr |-> None,
           proc |-> None, result |-> FALSE]

\* ------------------------------------------------ should_restart (175-188)
should_restart_nofirst(run, count, maxr) ==
  IF ~run THEN FALSE
  ELSE IF maxr # None /\ count >= maxr THEN FALSE
  ELSE TRUE

should_restart_offbyone(run, count, maxr) ==
  IF ~run THEN FALSE
  ELSE IF count = 0 THEN TRUE
  ELSE IF maxr # None /\ count > maxr THEN FALSE
  ELSE TRUE

\* A should_restart that allows the first start only.
should_restart_once(run, count, maxr) ==
  run /\ count = 0

should_restart(run, count, maxr) ==
  IF ~run THEN FALSE
  ELSE IF count = 0 THEN TRUE
  ELSE IF maxr # None /\ count >= maxr THEN FALSE
  ELSE TRUE

\* A should_restart that logs only once the count has passed the limit.
LogsCap_passed(run, count, maxr) ==
  run /\ count # 0 /\ maxr # None /\ count > maxr

\* The branch of should_restart that logs the restart-limit error (184-186).
LogsCap(run, count, maxr) ==
  run /\ count # 0 /\ maxr # None /\ count >= maxr

\* One call of should_restart(): its result and its only side effect, the log.
should_restart_call ==
  /\ sr' = [called |-> TRUE, running |-> running, count |-> restart_count,
            maxr |-> max_restarts, proc |-> process,
            result |-> should_restart(running, restart_count, max_restarts)]
  /\ cap_logged' = (cap_logged \/ LogsCap(running, restart_count, max_restarts))
  /\ UNCHANGED <<running, process, restart_count, max_restarts>>

\* --------------------------------------------------- run() (190-229)
\* SIGINT is bound to signal_handler (line 45), so the interpreter's default
\* handler never raises KeyboardInterrupt and lines 220-222 are not entered.
\* Return from stop_process(): in run() it is the cleanup call of line 228,
\* after which run() returns; in a signal handler it ends the handler, and
\* the interrupted frame resumes.
Return ==
  IF Len(stack) = 1
  THEN /\ stack' = <<Frame("done", None)>>
       /\ UNCHANGED sig_spawned
  ELSE /\ stack' = SubSeq(stack, 1, Len(stack) - 1)
       /\ sig_spawned' = IF sig_spawned = None THEN spawned ELSE sig_spawned

\* A run() that returns without the cleanup of line 228 when the loop
\* condition fails.
run_while_nocleanup ==
  /\ Top.pc = "r_while"
  /\ IF running THEN Goto("r_ifproc") ELSE Goto("done")
  /\ UNCHANGED <<running, process, restart_count, max_restarts, alive, spawned,
                 nsig, term_req, kill_req, grace_expired, stopped, cap_logged,
                 sig_spawned, sr>>
  /\ UNCHANGED <<since, last_start>>
  /\ UNCHANGED pvars

\* line 194: while self.running; when false, falls to the cleanup of 228.
run_while ==
  /\ Top.pc = "r_while"
  /\ IF running THEN Goto("r_ifproc") ELSE Goto("sp_if")
  /\ UNCHANGED <<running, process, restart_count, max_restarts, alive, spawned,
                 nsig, term_req, kill_req, grace_expired, stopped, cap_logged,
                 sig_spawned, sr>>
  /\ UNCHANGED <<since, last_start>>
  /\ UNCHANGED pvars

\* line 197: if not self.process.
run_ifproc ==
  /\ Top.pc = "r_ifproc"
  /\ IF process = None THEN Goto("r_should") ELSE Goto("m_if")
  /\ UNCHANGED <<running, process, restart_count, max_restarts, alive, spawned,
                 nsig, term_req, kill_req, grace_expired, stopped, cap_logged,
                 sig_spawned, sr>>
  /\ UNCHANGED <<since, last_start>>
  /\ UNCHANGED pvars

\* A run() that never sleeps before a start.
run_should_nodelay ==
  /\ Top.pc = "r_should"
  /\ should_restart_call
  /\ IF ~should_restart(running, restart_count, max_restarts) THEN Goto("sp_if")
     ELSE Goto("r_start")
  /\ UNCHANGED <<alive, spawned, nsig, term_req, kill_req, grace_expired,
                 stopped, sig_spawned>>
  /\ UNCHANGED <<since, last_start>>
  /\ UNCHANGED pvars

\* lines 198-203: break when should_restart() is false; otherwise sleep the
\* restart delay unless this is the first start.
run_should ==
  /\ Top.pc = "r_should"
  /\ should_restart_call
  /\ IF ~should_restart(running, restart_count, max_restarts) THEN Goto("sp_if")
     ELSE IF restart_count > 0 THEN Goto("r_delay")
     ELSE Goto("r_start")
  /\ UNCHANGED <<alive, spawned, nsig, term_req, kill_req, grace_expired,
                 stopped, sig_spawned>>
  /\ since' = IF should_restart(running, restart_count, max_restarts)
                   /\ restart_count > 0
                THEN [since EXCEPT !.ordered = since.detected]
                ELSE since
  /\ UNCHANGED last_start
  /\ UNCHANGED pvars

\* line 203: time.sleep(self.restart_delay) returns.
run_delay ==
  /\ Top.pc = "r_delay"
  /\ Goto("r_start")
  /\ UNCHANGED <<running, process, restart_count, max_restarts, alive, spawned,
                 nsig, term_req, kill_req, grace_expired, stopped, cap_logged,
                 sig_spawned, sr>>
  /\ since' = [since EXCEPT !.delay = TRUE]
  /\ UNCHANGED last_start
  /\ UNCHANGED pvars

\* A start_process whose failure is counted as a start by run().
start_process_popen_counts ==
  /\ Top.pc = "r_start"
  /\ spawned < MaxSpawn
  /\ \E ok \in BOOLEAN :
       IF ok
       THEN /\ spawned' = spawned + 1
            /\ alive' = alive \cup {spawned + 1}
            /\ GotoObj("st_assign", spawned + 1)
       ELSE /\ Goto("r_inc")
            /\ UNCHANGED <<spawned, alive>>
  /\ UNCHANGED <<running, process, restart_count, max_restarts, nsig, term_req,
                 kill_req, grace_expired, stopped, cap_logged, sig_spawned, sr>>
  /\ IF spawned' # spawned
     THEN last_start' = since /\ since' = NoWait
     ELSE UNCHANGED <<since, last_start>>
  /\ UNCHANGED pvars

\* start_process, lines 91-101 and 108-110: Popen either spawns a child or
\* raises; the exception is caught and start_process returns False. The
\* exploration stops at MaxSpawn children.
start_process_popen ==
  /\ Top.pc = "r_start"
  /\ spawned < MaxSpawn
  /\ \E ok \in BOOLEAN :
       IF ok
       THEN /\ spawned' = spawned + 1
            /\ alive' = alive \cup {spawned + 1}
            /\ GotoObj("st_assign", spawned + 1)
       ELSE /\ Goto("r_failsleep")
            /\ UNCHANGED <<spawned, alive>>
  /\ UNCHANGED <<running, process, restart_count, max_restarts, nsig, term_req,
                 kill_req, grace_expired, stopped, cap_logged, sig_spawned, sr>>
  /\ IF spawned' # spawned
     THEN last_start' = since /\ since' = NoWait
     ELSE UNCHANGED <<since, last_start>>
  /\ UNCHANGED pvars

\* start_process, lines 95-106: the new Popen object is stored in
\* self.process; start_process returns True.
start_process_assign ==
  /\ Top.pc = "st_assign"
  /\ process' = Top.obj
  /\ Goto("r_inc")
  /\ UNCHANGED <<running, restart_count, max_restarts, alive, spawned, nsig,
                 term_req, kill_req, grace_expired, stopped, cap_logged, sig_spawned, sr>>
  /\ UNCHANGED <<since, last_start>>
  /\ UNCHANGED pvars

\* A run() that forgets to count the start.
run_inc_forgets ==
  /\ Top.pc = "r_inc"
  /\ Goto("m_if")
  /\ UNCHANGED <<running, process, restart_count, max_restarts, alive, spawned,
                 nsig, term_req, kill_req, grace_expired, stopped, cap_logged,
                 sig_spawned, sr>>
  /\ UNCHANGED <<since, last_start>>
  /\ UNCHANGED pvars

\* line 206: self.restart_count += 1.
run_inc ==
  /\ Top.pc = "r_inc"
  /\ restart_count' = restart_count + 1
  /\ Goto("m_if")
  /\ UNCHANGED <<running, process, max_restarts, alive, spawned, nsig, term_req,
                 kill_req, grace_expired, stopped, cap_logged, sig_spawned, sr>>
  /\ UNCHANGED <<since, last_start>>
  /\ UNCHANGED pvars

\* A loop that tests its condition only once, on entry: every iteration
\* goes straight on to the next.
run_next_iteration_untested ==
  /\ Top.pc \in {"r_failsleep", "r_sleep", "r_except"}
  /\ Goto("r_ifproc")
  /\ UNCHANGED <<running, process, restart_count, max_restarts, alive, spawned,
                 nsig, term_req, kill_req, grace_expired, stopped, cap_logged,
                 sig_spawned, sr>>
  /\ since' = IF Top.pc = "r_failsleep"
                THEN [since EXCEPT !.failwait = TRUE]
                ELSE since
  /\ UNCHANGED last_start
  /\ UNCHANGED pvars

\* lines 208-210 (sleep after a failed start, continue), 218 (the 0.5 s
\* sleep) and 223-225 (the generic exception path, sleep 1 s): each ends the
\* iteration and returns to the loop condition.
run_next_iteration ==
  /\ Top.pc \in {"r_failsleep", "r_sleep", "r_except"}
  /\ Goto("r_while")
  /\ UNCHANGED <<running, process, restart_count, max_restarts, alive, spawned,
                 nsig, term_req, kill_req, grace_expired, stopped, cap_logged,
                 sig_spawned, sr>>
  /\ since' = IF Top.pc = "r_failsleep"
                THEN [since EXCEPT !.failwait = TRUE]
                ELSE since
  /\ UNCHANGED last_start
  /\ UNCHANGED pvars

\* ------------------------------------------ monitor_process (138-173)
\* lines 140-141: no handle, return False (run() continues, line 215).
monitor_if ==
  /\ Top.pc = "m_if"
  /\ IF process = None THEN Goto("r_while") ELSE Goto("m_poll")
  /\ UNCHANGED <<running, process, restart_count, max_restarts, alive, spawned,
                 nsig, term_req, kill_req, grace_expired, stopped, cap_logged,
                 sig_spawned, sr>>
  /\ UNCHANGED <<since, last_start>>
  /\ UNCHANGED pvars

\* A monitor_process that gives the handle up before looking at the child.
monitor_poll_forgets ==
  /\ Top.pc = "m_poll"
  /\ process' = None
  /\ Goto("r_while")
  /\ UNCHANGED <<running, restart_count, max_restarts, alive, spawned, nsig,
                 term_req, kill_req, grace_expired, stopped, cap_logged,
                 sig_spawned, sr>>
  /\ UNCHANGED <<since, last_start>>
  /\ UNCHANGED pvars

\* line 144: self.process.poll(). On a handle a signal handler has cleared
\* since line 140 this raises AttributeError, which run() catches at 223.
monitor_poll ==
  /\ Top.pc = "m_poll"
  /\ IF process = None THEN Goto("r_except")
     ELSE IF process \notin alive THEN Goto("m_rc")
     ELSE Goto("m_select")
  /\ UNCHANGED <<running, process, restart_count, max_restarts, alive, spawned,
                 nsig, term_req, kill_req, grace_expired, stopped, cap_logged,
                 sig_spawned, sr>>
  /\ since' = IF process # None /\ process \notin alive
                THEN [since EXCEPT !.detected = TRUE]
                ELSE since
  /\ UNCHANGED last_start
  /\ UNCHANGED pvars

\* line 146: self.process.returncode, outside any try.
monitor_returncode ==
  /\ Top.pc = "m_rc"
  /\ IF process = None THEN Goto("r_except") ELSE Goto("m_comm")
  /\ UNCHANGED <<running, process, restart_count, max_restarts, alive, spawned,
                 nsig, term_req, kill_req, grace_expired, stopped, cap_logged,
                 sig_spawned, sr>>
  /\ UNCHANGED <<since, last_start>>
  /\ UNCHANGED pvars

\* lines 152-157: drain the output; every exception is swallowed.
monitor_communicate ==
  /\ Top.pc = "m_comm"
  /\ Goto("m_clear")
  /\ UNCHANGED <<running, process, restart_count, max_restarts, alive, spawned,
                 nsig, term_req, kill_req, grace_expired, stopped, cap_logged,
                 sig_spawned, sr>>
  /\ UNCHANGED <<since, last_start>>
  /\ UNCHANGED pvars

\* lines 159-160: self.process = None, return False.
monitor_clear ==
  /\ Top.pc = "m_clear"
  /\ process' = None
  /\ Goto("r_while")
  /\ UNCHANGED <<running, restart_count, max_restarts, alive, spawned, nsig,
                 term_req, kill_req, grace_expired, stopped, cap_logged, sig_spawned, sr>>
  /\ UNCHANGED <<since, last_start>>
  /\ UNCHANGED pvars

\* lines 163-173: read a line of output (exceptions swallowed), return True.
monitor_select ==
  /\ Top.pc = "m_select"
  /\ Goto("r_sleep")
  /\ UNCHANGED <<running, process, restart_count, max_restarts, alive, spawned,
                 nsig, term_req, kill_req, grace_expired, stopped, cap_logged,
                 sig_spawned, sr>>
  /\ UNCHANGED <<since, last_start>>
  /\ UNCHANGED pvars

\* --------------------------------------------- stop_process (112-136)
\* A stop_process without the guard of line 114.
stop_process_if_unguarded ==
  /\ Top.pc = "sp_if"
  /\ GotoObj("sp_term", process)
  /\ UNCHANGED <<running, process, restart_count, max_restarts, alive, spawned,
                 nsig, term_req, kill_req, grace_expired, stopped, cap_logged,
                 sig_spawned, sr>>
  /\ UNCHANGED <<since, last_start>>
  /\ UNCHANGED pvars

\* line 114: if self.process; with no handle the method returns at once.
stop_process_if ==
  /\ Top.pc = "sp_if"
  /\ IF process = None
     THEN Return
     ELSE GotoObj("sp_term", process) /\ UNCHANGED sig_spawned
  /\ UNCHANGED <<running, process, restart_count, max_restarts, alive, spawned,
                 nsig, term_req, kill_req, grace_expired, stopped, cap_logged, sr>>
  /\ UNCHANGED <<since, last_start>>
  /\ UNCHANGED pvars

\* lines 116-119: self.process.pid, self.process.terminate(). A handle
\* cleared by a handler since line 114 raises AttributeError (caught at 132).
stop_process_terminate ==
  /\ Top.pc = "sp_term"
  /\ IF process = None
     THEN Step("sp_finally") /\ UNCHANGED term_req
     ELSE Step("sp_wait") /\ term_req' = term_req \cup {process}
  /\ UNCHANGED <<running, process, restart_count, max_restarts, alive, spawned,
                 nsig, kill_req, grace_expired, stopped, cap_logged, sig_spawned, sr>>
  /\ UNCHANGED <<since, last_start>>
  /\ UNCHANGED pvars

\* line 123: self.process.wait(timeout=10) is entered on the current handle.
stop_process_wait ==
  /\ Top.pc = "sp_wait"
  /\ IF process = None THEN Step("sp_finally") ELSE GotoObj("sp_waiting", process)
  /\ UNCHANGED <<running, process, restart_count, max_restarts, alive, spawned,
                 nsig, term_req, kill_req, grace_expired, stopped, cap_logged,
                 sig_spawned, sr>>
  /\ UNCHANGED <<since, last_start>>
  /\ UNCHANGED pvars

\* line 123 returns (the child has exited), then 130, or line 128 returns.
stop_process_wait_returns ==
  /\ Top.pc \in {"sp_waiting", "sp_waiting2"}
  /\ Top.obj \notin alive
  /\ Step("sp_finally")
  /\ UNCHANGED <<running, process, restart_count, max_restarts, alive, spawned,
                 nsig, term_req, kill_req, grace_expired, stopped, cap_logged,
                 sig_spawned, sr>>
  /\ UNCHANGED <<since, last_start>>
  /\ UNCHANGED pvars

\* A stop_process that kills whether or not the grace period has expired.
stop_process_wait_impatient ==
  /\ Top.pc = "sp_waiting"
  /\ grace_expired' = grace_expired \cup ({Top.obj} \cap alive)
  /\ Step("sp_kill")
  /\ UNCHANGED <<running, process, restart_count, max_restarts, alive, spawned,
                 nsig, term_req, kill_req, stopped, cap_logged, sig_spawned, sr>>
  /\ UNCHANGED <<since, last_start>>
  /\ UNCHANGED pvars

\* lines 124-126: the grace period ends with the child still running.
stop_process_wait_timeout ==
  /\ Top.pc = "sp_waiting"
  /\ Top.obj \in alive
  /\ grace_expired' = grace_expired \cup {Top.obj}
  /\ Step("sp_kill")
  /\ UNCHANGED <<running, process, restart_count, max_restarts, alive, spawned,
                 nsig, term_req, kill_req, stopped, cap_logged, sig_spawned, sr>>
  /\ UNCHANGED <<since, last_start>>
  /\ UNCHANGED pvars


\* line 127: self.process.kill().
stop_process_kill ==
  /\ Top.pc = "sp_kill"
  /\ IF process = None
     THEN Step("sp_finally") /\ UNCHANGED kill_req
     ELSE Step("sp_wait2") /\ kill_req' = kill_req \cup {process}
  /\ UNCHANGED <<running, process, restart_count, max_restarts, alive, spawned,
                 nsig, term_req, grace_expired, stopped, cap_logged, sig_spawned, sr>>
  /\ UNCHANGED <<since, last_start>>
  /\ UNCHANGED pvars

\* line 128: self.process.wait() is entered on the current handle.
stop_process_wait2 ==
  /\ Top.pc = "sp_wait2"
  /\ IF process = None THEN Step("sp_finally") ELSE GotoObj("sp_waiting2", process)
  /\ UNCHANGED <<running, process, restart_count, max_restarts, alive, spawned,
                 nsig, term_req, kill_req, grace_expired, stopped, cap_logged,
                 sig_spawned, sr>>
  /\ UNCHANGED <<since, last_start>>
  /\ UNCHANGED pvars

\* lines 135-136: finally: self.process = None; stop_process returns.
stop_process_finally ==
  /\ Top.pc = "sp_finally"
  /\ process' = None
  /\ stopped' = stopped \cup {Top.obj}
  /\ Return
  /\ UNCHANGED <<running, restart_count, max_restarts, alive, spawned, nsig,
                 term_req, kill_req, grace_expired, cap_logged, sr>>
  /\ UNCHANGED <<since, last_start>>
  /\ UNCHANGED pvars

\* --------------------------------------------- signal_handler (74-78)
\* SIGINT or SIGTERM is delivered: Python runs the handler in the main
\* thread, on top of whatever the thread was executing (lines 45-46).
signal_delivered ==
  /\ MainPc # "done"
  /\ nsig < MaxSignals
  /\ nsig' = nsig + 1
  /\ stack' = Append(stack, Frame("h_entry", None))
  /\ UNCHANGED <<running, process, restart_count, max_restarts, alive, spawned,
                 term_req, kill_req, grace_expired, stopped, cap_logged, sig_spawned, sr>>
  /\ UNCHANGED <<since, last_start>>
  /\ UNCHANGED pvars

\* lines 76-78: self.running = False, then stop_process().
signal_handler ==
  /\ Top.pc = "h_entry"
  /\ running' = FALSE
  /\ Goto("sp_if")
  /\ UNCHANGED <<process, restart_count, max_restarts, alive, spawned, nsig,
                 term_req, kill_req, grace_expired, stopped, cap_logged, sig_spawned, sr>>
  /\ UNCHANGED <<since, last_start>>
  /\ UNCHANGED pvars

\* ------------------------------------------------------ the child
\* The supervised program exits: on its own (a crash, a normal end), as its
\* reaction to SIGTERM, or because of SIGKILL.
child_exits ==
  /\ \E c \in alive : alive' = alive \ {c}
  /\ UNCHANGED <<running, process, restart_count, max_restarts, stack, spawned,
                 nsig, term_req, kill_req, grace_expired, stopped, cap_logged,
                 sig_spawned, sr>>
  /\ UNCHANGED <<since, last_start>>
  /\ UNCHANGED pvars

\* ------------------------------------------------ the watchdog program
\* __init__ (31-39) with the max_restarts main() passes (244-245, 266).
MaxRestartsValues == {None} \cup (0 .. MaxCap)

WatchdogInit ==
  /\ running = TRUE
  /\ process = None
  /\ restart_count = 0
  /\ max_restarts \in MaxRestartsValues
  /\ stack = <<Frame("r_while", None)>>
  /\ alive = {}
  /\ spawned = 0
  /\ nsig = 0
  /\ term_req = {}
  /\ kill_req = {}
  /\ grace_expired = {}
  /\ stopped = {}
  /\ cap_logged = FALSE
  /\ sig_spawned = None
  /\ sr = NoCall
  /\ since = NoWait
  /\ last_start = NoWait

WatchdogNext ==
  \/ run_while
  \/ run_ifproc
  \/ run_should
  \/ run_delay
  \/ start_process_popen
  \/ start_process_assign
  \/ run_inc
  \/ run_next_iteration
  \/ monitor_if
  \/ monitor_poll
  \/ monitor_returncode
  \/ monitor_communicate
  \/ monitor_clear
  \/ monitor_select
  \/ stop_process_if
  \/ stop_process_terminate
  \/ stop_process_wait
  \/ stop_process_wait_returns
  \/ stop_process_wait_timeout
  \/ stop_process_kill
  \/ stop_process_wait2
  \/ stop_process_finally
  \/ signal_delivered
  \/ signal_handler
  \/ child_exits


\* ======================================= combined_detection_depth_uvc.py
\* Queue(maxsize=2), lines 271-272.
QueueMaxSize == 2

\* lines 70-77.
VEHICLE_CLASSES == {"person", "bicycle", "car", "motorcycle", "bus", "truck"}

\* str.lower() on the class names.
Lower(c) == CASE c = "Person" -> "person" [] OTHER -> c

\* What one classifier call can do (lines 170-183): raise somewhere in the
\* try block, or return the objects it sees, here their class names
\* (net.GetClassDesc); "Person" only matches the allow-list after lower(),
\* "dog" never does.
RawOutputs == {<<>>, <<"car">>, <<"dog">>, <<"dog", "Person">>}
Outcomes == [raises : BOOLEAN, raw : RawOutputs]

Keep(c) == Lower(c) \in VEHICLE_CLASSES

\* A jetson_object_detection whose except branch returns what it has so far.
jetson_object_detection_partial(outcome) == SelectSeq(outcome.raw, Keep)

\* jetson_object_detection, lines 167-203: the allow-listed detections, or
\* [] when anything in the try block raised.
jetson_object_detection(outcome) ==
  IF outcome.raises THEN <<>> ELSE SelectSeq(outcome.raw, Keep)

NoRead == [id |-> None, latest |-> None]
NoAdd == [frame |-> None, before |-> <<>>, after |-> <<>>]

\* A worker that keeps going while frames are queued, whatever the flag.
worker_while_drains ==
  /\ mpc # "exit"
  /\ wpc = "w_while"
  /\ wpc' = IF fp_running \/ rgb_queue # <<>> THEN "w_get" ELSE "w_exit"
  /\ UNCHANGED <<rgb_queue, result_queue, fp_running, wframe, wdets, mpc,
                 nframes, current_detections, has_detections,
                 current_playing_sound, sound_enabled, emulator_enabled,
                 play_calls, stop_calls, sent, fed, last_completed, last_read,
                 raised, offered, last_add>>
  /\ UNCHANGED <<completed, reads>>
  /\ UNCHANGED wvars

\* -------------------------------------------- the worker (286-299)
\* line 288: while self.running.
worker_while ==
  /\ mpc # "exit"
  /\ wpc = "w_while"
  /\ wpc' = IF fp_running THEN "w_get" ELSE "w_exit"
  /\ UNCHANGED <<rgb_queue, result_queue, fp_running, wframe, wdets, mpc,
                 nframes, current_detections, has_detections,
                 current_playing_sound, sound_enabled, emulator_enabled,
                 play_calls, stop_calls, sent, fed, last_completed, last_read,
                 raised, offered, last_add>>
  /\ UNCHANGED <<completed, reads>>
  /\ UNCHANGED wvars

\* line 290: rgb_queue.get(timeout=0.1) returns the oldest queued frame.
worker_get ==
  /\ mpc # "exit"
  /\ wpc = "w_get"
  /\ rgb_queue # <<>>
  /\ wframe' = Head(rgb_queue)
  /\ rgb_queue' = Tail(rgb_queue)
  /\ wpc' = "w_detect"
  /\ UNCHANGED <<result_queue, fp_running, wdets, mpc, nframes,
                 current_detections, has_detections, current_playing_sound,
                 sound_enabled, emulator_enabled, play_calls, stop_calls, sent,
                 fed, last_completed, last_read, raised, offered, last_add>>
  /\ UNCHANGED <<completed, reads>>
  /\ UNCHANGED wvars

\* lines 290, 296-297: the wait times out on an empty queue; continue.
worker_get_timeout ==
  /\ mpc # "exit"
  /\ wpc = "w_get"
  /\ rgb_queue = <<>>
  /\ wpc' = "w_while"
  /\ UNCHANGED <<rgb_queue, result_queue, fp_running, wframe, wdets, mpc,
                 nframes, current_detections, has_detections,
                 current_playing_sound, sound_enabled, emulator_enabled,
                 play_calls, stop_calls, sent, fed, last_completed, last_read,
                 raised, offered, last_add>>
  /\ UNCHANGED <<completed, reads>>
  /\ UNCHANGED wvars

\* line 291: detections = jetson_object_detection(rgb_frame).
worker_detect ==
  /\ mpc # "exit"
  /\ wpc = "w_detect"
  /\ \E outcome \in Outcomes :
       /\ wdets' = jetson_object_detection(outcome)
       /\ raised' = IF outcome.raises THEN raised \cup {wframe} ELSE raised
  /\ completed' = Append(completed, wframe)
  /\ wpc' = "w_full"
  /\ UNCHANGED <<rgb_queue, result_queue, fp_running, wframe, mpc, nframes,
                 current_detections, has_detections, current_playing_sound,
                 sound_enabled, emulator_enabled, play_calls, stop_calls, sent,
                 fed, last_completed, last_read, offered, last_add>>
  /\ UNCHANGED <<reads>>
  /\ UNCHANGED wvars

\* A worker without the full() test: every result goes to put().
worker_full_unchecked ==
  /\ mpc # "exit"
  /\ wpc = "w_full"
  /\ offered' = offered \cup {[id |-> wframe, dets |-> wdets]}
  /\ wpc' = "w_put"
  /\ UNCHANGED <<rgb_queue, result_queue, fp_running, wframe, wdets, mpc,
                 nframes, current_detections, has_detections,
                 current_playing_sound, sound_enabled, emulator_enabled,
                 play_calls, stop_calls, sent, fed, last_completed, last_read,
                 raised, last_add>>
  /\ UNCHANGED <<completed, reads>>
  /\ UNCHANGED wvars

\* line 293: if not self.result_queue.full(); a full queue drops the result.
worker_full ==
  /\ mpc # "exit"
  /\ wpc = "w_full"
  /\ offered' = offered \cup {[id |-> wframe, dets |-> wdets]}
  /\ wpc' = IF Len(result_queue) >= QueueMaxSize THEN "w_while" ELSE "w_put"
  /\ UNCHANGED <<rgb_queue, result_queue, fp_running, wframe, wdets, mpc,
                 nframes, current_detections, has_detections,
                 current_playing_sound, sound_enabled, emulator_enabled,
                 play_calls, stop_calls, sent, fed, last_completed, last_read,
                 raised, last_add>>
  /\ UNCHANGED <<completed, reads>>
  /\ UNCHANGED wvars

\* line 294: self.result_queue.put(detections), which blocks while full.
worker_put ==
  /\ mpc # "exit"
  /\ wpc = "w_put"
  /\ Len(result_queue) < QueueMaxSize
  /\ result_queue' = Append(result_queue, [id |-> wframe, dets |-> wdets])
  /\ last_completed' = wframe
  /\ wpc' = "w_while"
  /\ UNCHANGED <<rgb_queue, fp_running, wframe, wdets, mpc, nframes,
                 current_detections, has_detections, current_playing_sound,
                 sound_enabled, emulator_enabled, play_calls, stop_calls, sent,
                 fed, last_read, raised, offered, last_add>>
  /\ UNCHANGED <<completed, reads>>
  /\ UNCHANGED wvars

\* ------------------------------------- FrameProcessor's queue methods
\* A put() where put_nowait() is meant: it waits for room.
add_rgb_frame_blocking(frame) ==
  /\ Len(rgb_queue) < QueueMaxSize
  /\ rgb_queue' = Append(rgb_queue, frame)
  /\ last_add' = [frame |-> frame, before |-> rgb_queue, after |-> rgb_queue']

\* add_rgb_frame, lines 301-306: put_nowait; queue.Full is swallowed.
add_rgb_frame(frame) ==
  /\ rgb_queue' = IF Len(rgb_queue) >= QueueMaxSize THEN rgb_queue
                  ELSE Append(rgb_queue, frame)
  /\ last_add' = [frame |-> frame, before |-> rgb_queue, after |-> rgb_queue']

\* A get_latest_detection whose "no new result" clears the detections.
get_latest_detection_resets ==
  /\ IF result_queue = <<>>
     THEN /\ current_detections' = <<>>
          /\ UNCHANGED <<result_queue, last_read, reads>>
     ELSE /\ result_queue' = Tail(result_queue)
          /\ reads' = Append(reads, Head(result_queue).id)
          /\ current_detections' = Head(result_queue).dets
          /\ last_read' = [id |-> Head(result_queue).id,
                           latest |-> last_completed]
  /\ has_detections' = (Len(current_detections') > 0)

\* A get_latest_detection that returns the newest queued result and leaves
\* the older ones queued.
get_latest_detection_newest ==
  /\ IF result_queue = <<>>
     THEN UNCHANGED <<result_queue, current_detections, last_read, reads>>
     ELSE /\ result_queue' = SubSeq(result_queue, 1, Len(result_queue) - 1)
          /\ reads' = Append(reads, result_queue[Len(result_queue)].id)
          /\ current_detections' = result_queue[Len(result_queue)].dets
          /\ last_read' = [id |-> result_queue[Len(result_queue)].id,
                           latest |-> last_completed]
  /\ has_detections' = (Len(current_detections') > 0)

\* get_latest_detection, lines 308-313: get_nowait, None on queue.Empty.
\* In main() (390-395) a result replaces current_detections, and
\* has_detections is computed from current_detections.
get_latest_detection ==
  /\ IF result_queue = <<>>
     THEN UNCHANGED <<result_queue, current_detections, last_read, reads>>
     ELSE /\ result_queue' = Tail(result_queue)
          /\ reads' = Append(reads, Head(result_queue).id)
          /\ current_detections' = Head(result_queue).dets
          /\ last_read' = [id |-> Head(result_queue).id, latest |-> last_completed]
  /\ has_detections' = (Len(current_detections') > 0)

\* ------------------------------------------- play_alert_sound (205-221)
\* A play_alert_sound that, once started, never stops the alert.
play_alert_sound_latched(has) ==
  IF ~sound_enabled
  THEN UNCHANGED <<current_playing_sound, play_calls, stop_calls>>
  ELSE IF has /\ current_playing_sound # "chiller"
  THEN /\ stop_calls' = stop_calls + 1
       /\ play_calls' = play_calls + 1
       /\ current_playing_sound' = "chiller"
  ELSE UNCHANGED <<current_playing_sound, play_calls, stop_calls>>

\* A play_alert_sound that plays whenever there are detections.
play_alert_sound_level(has) ==
  IF ~sound_enabled
  THEN UNCHANGED <<current_playing_sound, play_calls, stop_calls>>
  ELSE IF has
  THEN /\ stop_calls' = stop_calls + 1
       /\ play_calls' = play_calls + 1
       /\ current_playing_sound' = "chiller"
  ELSE IF current_playing_sound # "None"
  THEN /\ stop_calls' = stop_calls + 1
       /\ current_playing_sound' = "None"
       /\ UNCHANGED play_calls
  ELSE UNCHANGED <<current_playing_sound, play_calls, stop_calls>>

play_alert_sound(has) ==
  IF ~sound_enabled
  THEN UNCHANGED <<current_playing_sound, play_calls, stop_calls>>
  ELSE IF has
  THEN IF current_playing_sound # "chiller"
       THEN /\ stop_calls' = stop_calls + 1
            /\ play_calls' = play_calls + 1
            /\ current_playing_sound' = "chiller"
       ELSE UNCHANGED <<current_playing_sound, play_calls, stop_calls>>
  ELSE IF current_playing_sound # "None"
  THEN /\ stop_calls' = stop_calls + 1
       /\ current_playing_sound' = "None"
       /\ UNCHANGED play_calls
  ELSE UNCHANGED <<current_playing_sound, play_calls, stop_calls>>

\* ------------------------------------------- send_to_emulator (223-233)
Digit(d) ==
  CASE d = 0 -> "0" [] d = 1 -> "1" [] d = 2 -> "2" [] d = 3 -> "3"
    [] d = 4 -> "4" [] d = 5 -> "5" [] d = 6 -> "6" [] d = 7 -> "7"
    [] d = 8 -> "8" [] d = 9 -> "9"

RECURSIVE IntToText(_)
IntToText(n) == IF n < 10 THEN Digit(n) ELSE IntToText(n \div 10) \o Digit(n % 10)

\* line 230: json.dumps({"danger_level": detection_level}).
json_dumps(level) == "{\"danger_level\": " \o IntToText(level) \o "}"

\* A danger level on the 0-100 scale the field name suggests.
detection_level_scaled(has) == IF has THEN 100 ELSE 0

\* line 229.
detection_level(has) == IF has THEN 50 ELSE 0

\* One sendto() call per invocation; ok = FALSE is a sendto() that raises,
\* which line 232 catches.
send_to_emulator(has, ok) ==
  IF ~emulator_enabled
  THEN UNCHANGED sent
  ELSE sent' = Append(sent, [payload |-> json_dumps(detection_level(has)),
                             delivered |-> ok])

\* -------------------------------- the real-time loop of main() (379-441)
\* lines 381-386: a cycle begins; the camera queue has a frame or not.
main_capture ==
  /\ mpc = "l_capture"
  /\ sent' = <<>>
  /\ \E has \in BOOLEAN :
       IF has /\ nframes < MaxFrames
       THEN nframes' = nframes + 1 /\ mpc' = "l_add"
       ELSE UNCHANGED nframes /\ mpc' = "l_latest"
  /\ UNCHANGED <<rgb_queue, result_queue, fp_running, wpc, wframe, wdets,
                 current_detections, has_detections, current_playing_sound,
                 sound_enabled, emulator_enabled, play_calls, stop_calls, fed,
                 last_completed, last_read, raised, offered, last_add>>
  /\ UNCHANGED <<completed, reads>>
  /\ UNCHANGED wvars

\* line 387: processor.add_rgb_frame(rgb_frame.copy()).
main_add ==
  /\ mpc = "l_add"
  /\ add_rgb_frame(nframes)
  /\ mpc' = "l_latest"
  /\ UNCHANGED <<result_queue, fp_running, wpc, wframe, wdets, nframes,
                 current_detections, has_detections, current_playing_sound,
                 sound_enabled, emulator_enabled, play_calls, stop_calls, sent,
                 fed, last_completed, last_read, raised, offered>>
  /\ UNCHANGED <<completed, reads>>
  /\ UNCHANGED wvars

\* lines 390-395.
main_latest ==
  /\ mpc = "l_latest"
  /\ get_latest_detection
  /\ mpc' = "l_emulator"
  /\ UNCHANGED <<rgb_queue, fp_running, wpc, wframe, wdets, nframes,
                 current_playing_sound, sound_enabled, emulator_enabled,
                 play_calls, stop_calls, sent, fed, last_completed, raised,
                 offered, last_add>>
  /\ UNCHANGED <<completed>>
  /\ UNCHANGED wvars

\* A loop in which the exception of a failed send reaches main()'s finally.
main_emulator_propagates ==
  /\ mpc = "l_emulator"
  /\ \E ok \in BOOLEAN :
       /\ send_to_emulator(has_detections, ok)
       /\ mpc' = IF ok \/ ~emulator_enabled THEN "l_sound" ELSE "l_stop"
  /\ UNCHANGED <<rgb_queue, result_queue, fp_running, wpc, wframe, wdets,
                 nframes, current_detections, has_detections,
                 current_playing_sound, sound_enabled, emulator_enabled,
                 play_calls, stop_calls, fed, last_completed, last_read, raised,
                 offered, last_add>>
  /\ UNCHANGED <<completed, reads>>
  /\ UNCHANGED wvars

\* lines 398-399.
main_emulator ==
  /\ mpc = "l_emulator"
  /\ \E ok \in BOOLEAN : send_to_emulator(has_detections, ok)
  /\ mpc' = "l_sound"
  /\ UNCHANGED <<rgb_queue, result_queue, fp_running, wpc, wframe, wdets,
                 nframes, current_detections, has_detections,
                 current_playing_sound, sound_enabled, emulator_enabled,
                 play_calls, stop_calls, fed, last_completed, last_read, raised,
                 offered, last_add>>
  /\ UNCHANGED <<completed, reads>>
  /\ UNCHANGED wvars

\* A loop whose sound step is driven by whether a result is waiting, a
\* value other than the one the telemetry step was given.
main_sound_pending ==
  /\ mpc = "l_sound"
  /\ play_alert_sound(result_queue # <<>>)
  /\ mpc' = "l_key"
  /\ UNCHANGED <<rgb_queue, result_queue, fp_running, wpc, wframe, wdets,
                 nframes, current_detections, has_detections, sound_enabled,
                 emulator_enabled, sent, fed, last_completed, last_read, raised,
                 offered, last_add>>
  /\ UNCHANGED <<completed, reads>>
  /\ UNCHANGED wvars

\* lines 402-403.
main_sound ==
  /\ mpc = "l_sound"
  /\ play_alert_sound(has_detections)
  /\ mpc' = "l_key"
  /\ UNCHANGED <<rgb_queue, result_queue, fp_running, wpc, wframe, wdets,
                 nframes, current_detections, has_detections, sound_enabled,
                 emulator_enabled, sent, fed, last_completed, last_read, raised,
                 offered, last_add>>
  /\ UNCHANGED <<completed, reads>>
  /\ UNCHANGED wvars

\* lines 439-441: 'q' leaves the loop, anything else starts the next cycle.
main_key ==
  /\ mpc = "l_key"
  /\ \E quit \in BOOLEAN : mpc' = IF quit THEN "l_stop" ELSE "l_capture"
  /\ UNCHANGED <<rgb_queue, result_queue, fp_running, wpc, wframe, wdets,
                 nframes, current_detections, has_detections,
                 current_playing_sound, sound_enabled, emulator_enabled,
                 play_calls, stop_calls, sent, fed, last_completed, last_read,
                 raised, offered, last_add>>
  /\ UNCHANGED <<completed, reads>>
  /\ UNCHANGED wvars

\* FrameProcessor.stop, line 282 (called at 444): self.running = False.
processor_stop ==
  /\ mpc = "l_stop"
  /\ fp_running' = FALSE
  /\ mpc' = "l_join"
  /\ UNCHANGED <<rgb_queue, result_queue, wpc, wframe, wdets, nframes,
                 current_detections, has_detections, current_playing_sound,
                 sound_enabled, emulator_enabled, play_calls, stop_calls, sent,
                 fed, last_completed, last_read, raised, offered, last_add>>
  /\ UNCHANGED <<completed, reads>>
  /\ UNCHANGED wvars

\* FrameProcessor.stop, lines 283-284: join(timeout=1.0) returns, because
\* the worker ended or because the second passed; main() then returns and
\* the daemon thread ends with the process.
processor_join ==
  /\ mpc = "l_join"
  /\ mpc' = "exit"
  /\ UNCHANGED <<rgb_queue, result_queue, fp_running, wpc, wframe, wdets,
                 nframes, current_detections, has_detections,
                 current_playing_sound, sound_enabled, emulator_enabled,
                 play_calls, stop_calls, sent, fed, last_completed, last_read,
                 raised, offered, last_add>>
  /\ UNCHANGED <<completed, reads>>
  /\ UNCHANGED wvars

\* --------------------------------------------- the detection program
\* Module level (88-113), FrameProcessor.__init__ and start (270-279), and
\* main() up to the loop (368-374).
PipelineInit ==
  /\ rgb_queue = <<>>
  /\ result_queue = <<>>
  /\ fp_running = TRUE
  /\ wpc = "w_while"
  /\ wframe = None
  /\ wdets = <<>>
  /\ mpc = "l_capture"
  /\ nframes = 0
  /\ current_detections = <<>>
  /\ has_detections = FALSE
  /\ current_playing_sound = "None"
  /\ sound_enabled \in BOOLEAN
  /\ emulator_enabled \in BOOLEAN
  /\ play_calls = 0
  /\ stop_calls = 0
  /\ sent = <<>>
  /\ fed = <<>>
  /\ last_completed = None
  /\ last_read = NoRead
  /\ raised = {}
  /\ offered = {}
  /\ last_add = NoAdd
  /\ completed = <<>>
  /\ reads = <<>>

PipelineNext ==
  \/ worker_while
  \/ worker_get
  \/ worker_get_timeout
  \/ worker_detect
  \/ worker_full
  \/ worker_put
  \/ main_capture
  \/ main_add
  \/ main_latest
  \/ main_emulator
  \/ main_sound
  \/ main_key
  \/ processor_stop
  \/ processor_join

\* The watchdog as constructed with max_restarts unset, not run.
WatchdogOff == WatchdogInit /\ max_restarts = None

\* The detection program as loaded with sound and telemetry up, not run.
PipelineOff == PipelineInit /\ sound_enabled /\ emulator_enabled

\* The detection program runs; no watchdog is involved.
PipelineStart == PipelineInit /\ WatchdogOff

PipelineSpec == PipelineStart /\ [][PipelineNext]_vars

\* The steps of the detection thread (286-299). The thread is scheduled
\* again and again while the program runs; get(timeout=0.1) returns or times
\* out, and put() is entered only on a queue that is not full.
WorkerStep ==
  \/ worker_while
  \/ worker_get
  \/ worker_get_timeout
  \/ worker_detect
  \/ worker_full
  \/ worker_put

FairPipelineSpec ==
  PipelineStart /\ [][PipelineNext]_vars /\ WF_vars(WorkerStep)

\* ---------------------------------- play_alert_sound() as a function
\* The function fed an arbitrary sequence of DangerStates.
alert_feed ==
  /\ Len(fed) < MaxFeed
  /\ \E has \in BOOLEAN :
       /\ play_alert_sound(has)
       /\ fed' = Append(fed, has)
  /\ UNCHANGED <<rgb_queue, result_queue, fp_running, wpc, wframe, wdets, mpc,
                 nframes, current_detections, has_detections, sound_enabled,
                 emulator_enabled, sent, last_completed, last_read, raised,
                 offered, last_add>>
  /\ UNCHANGED <<completed, reads>>
  /\ UNCHANGED wvars

AlertSpec == PipelineStart /\ [][alert_feed]_vars

\* The watchdog runs; what it supervises is opaque to it.
WatchdogStart == WatchdogInit /\ PipelineOff

WatchdogSpec == WatchdogStart /\ [][WatchdogNext]_vars

\* The steps of the watchdog's only thread: run() and the signal handlers
\* stacked on it. Every one of them is a statement that returns (the sleeps
\* of 203, 209, 218 and 225 are finite, wait(timeout=10) returns or times out),
\* so the interpreter always takes the thread's next step.
WatchdogStep ==
  \/ run_while
  \/ run_ifproc
  \/ run_should
  \/ run_delay
  \/ start_process_popen
  \/ start_process_assign
  \/ run_inc
  \/ run_next_iteration
  \/ monitor_if
  \/ monitor_poll
  \/ monitor_returncode
  \/ monitor_communicate
  \/ monitor_clear
  \/ monitor_select
  \/ stop_process_if
  \/ stop_process_terminate
  \/ stop_process_wait
  \/ stop_process_wait_returns
  \/ stop_process_wait_timeout
  \/ stop_process_kill
  \/ stop_process_wait2
  \/ stop_process_finally
  \/ signal_handler

\* Popen (95-101) returns a child.
SpawnSucceeds == start_process_popen /\ spawned' = spawned + 1

\* The watchdog under fair scheduling: the thread keeps stepping, a running
\* child eventually exits, and a spawn attempted again and again eventually
\* succeeds. Signals stay possible and are never required.
WatchdogFairness ==
  /\ WF_vars(WatchdogStep)
  /\ WF_vars(child_exits)
  /\ SF_vars(SpawnSucceeds)

FairWatchdogSpec == WatchdogStart /\ [][WatchdogNext]_vars /\ WatchdogFairness

\* ================================================== claims: the watchdog
Frames == {stack[i] : i \in 1 .. Len(stack)}

\* C2. Restart cap: with max_restarts = 2 and children that exit by
\* themselves, a run() that no signal interrupts has started the child
\* exactly twice when it returns, never more than twice before, and every
\* should_restart() call made once two starts are counted returns false.
C2_RestartCap ==
  max_restarts = 2 =>
    /\ spawned <= 2
    /\ (MainPc = "done" /\ nsig = 0) => spawned = 2
    /\ restart_count >= 2 => ~should_restart(running, restart_count, max_restarts)
    /\ (sr.called /\ sr.count >= 2) => ~sr.result

C2_Witness ==
  /\ max_restarts = 2
  /\ MainPc = "done"
  /\ nsig = 0
  /\ spawned = 2
  /\ sr.called /\ sr.count = 2 /\ ~sr.result

\* C3. No child is spawned once a shutdown signal has been handled: the
\* number of children spawned stays what it was when the handler returned.
C3_NoSpawnAfterSignal ==
  sig_spawned # None => spawned = sig_spawned

Counting == \E f \in Frames : f.pc \in {"st_assign", "r_inc"}

C8_FirstStart ==
  /\ (sr.called /\ sr.count = 0 /\ sr.running) => sr.result
  /\ (MainPc = "done" /\ nsig = 0) => spawned >= 1

C8_Witness ==
  /\ max_restarts = 0
  /\ sr.called /\ sr.count = 0 /\ sr.running /\ sr.result
  /\ spawned = 1

\* ----------------------------------- should_restart() as a function
\* A supervisor in any state of its fields, on which should_restart() is
\* called once.
ShouldRestartInit ==
  /\ running \in BOOLEAN
  /\ process \in {None, 1}
  /\ restart_count \in 0 .. MaxCount
  /\ max_restarts \in {None} \cup (0 .. MaxCount)
  /\ stack = <<Frame("r_should", None)>>
  /\ alive = {}
  /\ spawned = restart_count
  /\ nsig = 0
  /\ term_req = {}
  /\ kill_req = {}
  /\ grace_expired = {}
  /\ stopped = {}
  /\ cap_logged = FALSE
  /\ sig_spawned = None
  /\ sr = NoCall
  /\ since = NoWait
  /\ last_start = NoWait

ShouldRestartNext ==
  /\ ~sr.called
  /\ should_restart_call
  /\ UNCHANGED <<stack, alive, spawned, nsig, term_req, kill_req, grace_expired,
                 stopped, sig_spawned>>
  /\ UNCHANGED <<since, last_start>>
  /\ UNCHANGED pvars

ShouldRestartStart == ShouldRestartInit /\ PipelineOff

ShouldRestartSpec == ShouldRestartStart /\ [][ShouldRestartNext]_vars

\* C9. should_restart() is true iff the supervisor is not shutting down and
\* (restart_count = 0, or max_restarts is unset, or restart_count <
\* max_restarts); the call leaves restart_count and the handle as they were.
C9_ShouldRestartIff ==
  sr.called =>
    /\ sr.result <=> (sr.running /\ (sr.count = 0 \/ sr.maxr = None
                                     \/ sr.count < sr.maxr))
    /\ restart_count = sr.count
    /\ process = sr.proc
    /\ max_restarts = sr.maxr
    /\ running = sr.running

C9_Witness ==
  /\ sr.called
  /\ sr.running /\ sr.count = 2 /\ sr.maxr = 2 /\ ~sr.result
  /\ process = 1
  /\ cap_logged

\* ================================================== claims: the pipeline
\* C1. Latest-wins: the result a get_latest_detection() call returns is the
\* one the worker completed (and put on the result queue) last before the
\* call.
C1_LatestWins ==
  last_read.id # None => last_read.id = last_read.latest

\* Edges of the DangerState sequence fed so far; the actuator starts inactive.
Rising(h) == Cardinality({i \in 1 .. Len(h) : h[i] /\ (i = 1 \/ ~h[i - 1])})
Falling(h) == Cardinality({i \in 2 .. Len(h) : ~h[i] /\ h[i - 1]})
EdgeSequence == <<FALSE, TRUE, TRUE, TRUE, FALSE>>

\* C4 as stated. Edge-triggering: with sound enabled, the looped play() calls
\* are as many as the ABSENT-to-PRESENT edges and the mixer stop() calls as
\* many as the PRESENT-to-ABSENT edges: one of each for the sequence
\* [ABSENT, PRESENT, PRESENT, PRESENT, ABSENT].
C4_OneStopPerFallingEdge ==
  sound_enabled =>
    /\ play_calls = Rising(fed)
    /\ stop_calls = Falling(fed)
    /\ fed = EdgeSequence => (play_calls = 1 /\ stop_calls = 1)

\* C4 as amended: the play() calls are as many as the ABSENT-to-PRESENT
\* edges, and the mixer stop() calls as many as the edges of both kinds,
\* because a stop() precedes every play(): for the sequence above, one
\* play() and two stop(). The actuator memory is "chiller" exactly when
\* the last DangerState fed was PRESENT.
C4_EdgeTriggered ==
  sound_enabled =>
    /\ play_calls = Rising(fed)
    /\ stop_calls = Rising(fed) + Falling(fed)
    /\ fed = EdgeSequence => (play_calls = 1 /\ stop_calls = 2)
    /\ fed # <<>> => (current_playing_sound = "chiller" <=> fed[Len(fed)])

C4_Witness ==
  /\ sound_enabled
  /\ fed = EdgeSequence
  /\ play_calls = 1
  /\ stop_calls = 2
  /\ current_playing_sound = "None"

\* C5. Backpressure: the frame queue never holds more than 2 frames;
\* add_rgb_frame() can always complete, whatever the worker is doing; a
\* frame added to a queue of 2 leaves the queue as it was, and any other is
\* appended; the loop goes on to its next statement either way.
C5_Backpressure ==
  /\ Len(rgb_queue) <= 2
  /\ mpc = "l_add" => ENABLED main_add
  /\ last_add.frame # None =>
       last_add.after = IF Len(last_add.before) = 2 THEN last_add.before
                        ELSE Append(last_add.before, last_add.frame)

C5_Witness ==
  /\ last_add.frame = 3
  /\ Len(last_add.before) = 2
  /\ rgb_queue = <<1, 2>>
  /\ mpc = "l_latest"

\* C10. Classifier-failure isolation: the result for a frame the classifier
\* raised on is the empty DetectionSet, it reaches the result-queue push like
\* any other, and the worker ends only when the running flag is cleared.
C10_ClassifierFailureIsolated ==
  /\ \A f \in raised :
       IF wpc = "w_full" /\ wframe = f
       THEN wdets = <<>>
       ELSE [id |-> f, dets |-> <<>>] \in offered
  /\ \A r \in offered : r.id \in raised => r.dets = <<>>
  /\ \A i \in 1 .. Len(result_queue) :
       result_queue[i].id \in raised => result_queue[i].dets = <<>>
  /\ wpc = "w_exit" => ~fp_running

\* A frame raised on, its empty result queued, and a later frame processed.
C10_Witness ==
  /\ 1 \in raised
  /\ [id |-> 1, dets |-> <<>>] \in offered
  /\ \E r \in offered : r.id = 2 /\ r.dets # <<>>
  /\ Len(result_queue) = 2
  /\ result_queue[1] = [id |-> 1, dets |-> <<>>]
  /\ result_queue[2].id = 2

\* C11. Telemetry format: with telemetry enabled, a cycle's send_to_emulator
\* call makes exactly one sendto() call, whose payload is the text
\* {"danger_level": 50} when has_detections and {"danger_level": 0} when
\* not; no other payload is ever handed to sendto().
PayloadPresent == "{\"danger_level\": 50}"
PayloadAbsent == "{\"danger_level\": 0}"
AfterEmulator == mpc \in {"l_sound", "l_key", "l_stop", "l_join", "exit"}

C11_TelemetryFormat ==
  /\ \A i \in 1 .. Len(sent) : sent[i].payload \in {PayloadPresent, PayloadAbsent}
  /\ (emulator_enabled /\ AfterEmulator) =>
       /\ Len(sent) = 1
       /\ sent[1].payload = IF has_detections THEN PayloadPresent ELSE PayloadAbsent

C11_Witness ==
  /\ emulator_enabled
  /\ mpc = "l_sound"
  /\ has_detections
  /\ sent = <<[payload |-> PayloadPresent, delivered |-> TRUE]>>

\* C12. No out-of-order or duplicate delivery: the results successive
\* get_latest_detection() calls return are, in order, a subsequence of the
\* results in the order the worker completed them, and none is returned
\* twice.
RECURSIVE IsSubsequence(_, _)
IsSubsequence(a, b) ==
  IF a = <<>> THEN TRUE
  ELSE IF b = <<>> THEN FALSE
  ELSE IF Head(a) = Head(b) THEN IsSubsequence(Tail(a), Tail(b))
  ELSE IsSubsequence(a, Tail(b))

C12_InOrderNoDuplicates ==
  /\ IsSubsequence(reads, completed)
  /\ \A i, j \in 1 .. Len(reads) : i < j => reads[i] < reads[j]

\* Results 1 and 2 were returned in that order; result 3 was completed and
\* dropped at the full result queue, so the returned results are a proper
\* subsequence of the completed ones.
C12_Witness ==
  /\ reads = <<1, 2>>
  /\ completed = <<1, 2, 3>>
  /\ result_queue = <<>>
  /\ wpc = "w_while"

\* C13. Unbounded restarts when no cap: with max_restarts unset and no
\* shutdown signal, every exit of the latest child is eventually followed by
\* the start of a new child, whatever the number k of children started so
\* far (up to the bound of the exploration).
C13_RestartsForever ==
  \A k \in 1 .. (MaxSpawn - 1) :
    (max_restarts = None /\ nsig = 0 /\ spawned = k /\ k \notin alive)
      ~> (spawned > k \/ nsig > 0)

\* Without a cap and without a signal, the last child the exploration allows
\* has been started after all the earlier ones exited.
C13_Witness ==
  /\ max_restarts = None
  /\ nsig = 0
  /\ spawned = MaxSpawn
  /\ restart_count = MaxSpawn
  /\ process = MaxSpawn
  /\ alive = {MaxSpawn}

\* C14. Termination under a cap: with a finite max_restarts, spawns
\* succeeding and every child eventually exiting, run() eventually returns.
C14_RunTerminates == (max_restarts # None) ~> (MainPc = "done")

\* run() has returned without any signal, after max_restarts children and
\* the restart-limit log.
C14_Witness ==
  /\ max_restarts = MaxCap
  /\ nsig = 0
  /\ MainPc = "done"
  /\ spawned = MaxCap
  /\ restart_count = MaxCap
  /\ alive = {}
  /\ cap_logged

\* C15. stop_process() is idempotent and safe with no child. Called with
\* the handle None it returns at once: no terminate or kill is sent, no
\* exception path is taken and no field of the supervisor changes. Every
\* call that does stop a child, alone or with a signal handler's
\* stop_process() nested in it, returns with the handle None and that child
\* exited, so a second call finds the handle None and changes nothing.
ThreadStep == stack' # stack /\ Len(stack') <= Len(stack)
Returns ==
  IF Len(stack) = 1 THEN stack' = <<Frame("done", None)>>
  ELSE stack' = SubSeq(stack, 1, Len(stack) - 1)

C15_StopStep ==
  /\ (ThreadStep /\ Top.pc = "sp_if" /\ process = None) =>
       /\ Returns
       /\ UNCHANGED <<running, process, restart_count, max_restarts, alive,
                      spawned, term_req, kill_req, grace_expired, stopped>>
  /\ (ThreadStep /\ Top.pc = "sp_finally") =>
       /\ Returns
       /\ process' = None
       /\ Top.obj \notin alive
       /\ UNCHANGED <<running, restart_count, max_restarts, alive, spawned,
                      term_req, kill_req>>

C15_StopIdempotent == [][C15_StopStep]_vars

\* run()'s own stop_process() is about to return after a signal handler's
\* stop_process(), nested in it, stopped the same child and cleared the
\* handle.
C15_Witness ==
  /\ Len(stack) = 1
  /\ MainPc = "sp_finally"
  /\ process = None
  /\ stack[1].obj \in stopped
  /\ stack[1].obj \in term_req

\* C16. Spawn failure handling: a start_process() whose Popen raises
\* returns False to run() (the step to the sleep of line 209) with no handle
\* recorded and restart_count, the children and running unchanged; the loop
\* then sleeps and reaches the spawn attempt again unless a signal arrives;
\* restart_count never exceeds the number of children actually spawned, so
\* failed spawns consume no restart budget.
C16_FailStep ==
  (Top.pc = "r_start" /\ Len(stack') = Len(stack)
     /\ stack'[Len(stack')].pc = "r_failsleep") =>
    /\ process = None
    /\ UNCHANGED <<process, restart_count, spawned, alive, running, cap_logged>>

C16_SpawnFailure ==
  /\ [][C16_FailStep]_vars
  /\ [](restart_count <= spawned)
  /\ (Top.pc = "r_failsleep" /\ nsig = 0) ~> (Top.pc = "r_start" \/ nsig > 0)

\* The spawn after the first child's exit has just failed: one child
\* spawned, one start counted, no handle.
C16_Witness ==
  /\ Top.pc = "r_failsleep"
  /\ nsig = 0
  /\ spawned = 1
  /\ restart_count = 1
  /\ process = None
  /\ max_restarts = MaxCap

\* C17. Worker termination: once stop() has set running to false, the
\* worker never enters the body of its loop again, even with frames queued:
\* it finishes the input wait or the frame it is in, and its next test of
\* the flag ends the thread (unless the program exits first, which ends the
\* daemon thread with it).
C17_NoNewIteration ==
  (~fp_running /\ wpc = "w_while") => (wpc' \in {"w_while", "w_exit"})

C17_WorkerTerminates ==
  /\ [][C17_NoNewIteration]_vars
  /\ (~fp_running) ~> (wpc = "w_exit" \/ mpc = "exit")

\* The worker has ended while join() is still waiting and frames are still
\* queued.
C17_Witness ==
  /\ ~fp_running
  /\ mpc = "l_join"
  /\ wpc = "w_exit"
  /\ rgb_queue # <<>>

\* C18. Cap exhaustion is reported: whenever run() has left its loop because
\* the restart cap was reached (no signal has arrived, or the last
\* should_restart() call refused while running was still true), the
\* "Maximum restart limit" error has been logged.
AfterLoop ==
  MainPc \in {"sp_if", "sp_term", "sp_wait", "sp_waiting", "sp_kill",
              "sp_wait2", "sp_waiting2", "sp_finally", "done"}
ExitByCap == sr.called /\ sr.running /\ ~sr.result

C18_CapReported ==
  (AfterLoop /\ (nsig = 0 \/ ExitByCap)) => cap_logged

\* The loop has just broken at line 199 on the cap of one restart, without
\* any signal.
C18_Witness ==
  /\ MainPc = "sp_if"
  /\ nsig = 0
  /\ ExitByCap
  /\ max_restarts = 1
  /\ restart_count = 1
  /\ cap_logged

\* C19. Telemetry failure is isolated: a send_to_emulator() whose sendto()
\* raises returns to the loop (the exception is caught at 232), which goes on
\* to the sound step of the same cycle; the send is not repeated; the sound
\* step acts on the same has_detections; and the loop then reads the key and
\* continues, with has_detections and current_detections as they were.
SendFailed == sent # <<>> /\ ~sent[Len(sent)].delivered

C19_Step ==
  /\ (mpc = "l_emulator" /\ mpc' # mpc /\ SendFailed') =>
       /\ mpc' = "l_sound"
       /\ Len(sent') = 1
       /\ UNCHANGED <<has_detections, current_detections,
                      current_playing_sound, fp_running>>
  /\ (mpc = "l_sound" /\ mpc' # mpc /\ SendFailed) =>
       /\ mpc' = "l_key"
       /\ UNCHANGED <<sent, has_detections, current_detections, fp_running>>
       /\ sound_enabled =>
            current_playing_sound' = IF has_detections THEN "chiller" ELSE "None"
  /\ (mpc = "l_key" /\ mpc' # mpc /\ SendFailed) =>
       /\ mpc' \in {"l_capture", "l_stop"}
       /\ UNCHANGED <<sent, has_detections, current_detections,
                      current_playing_sound, fp_running>>

C19_TelemetryFailureIsolated == [][C19_Step]_vars

\* The send of this cycle failed, and the sound step has started the alert
\* for the same detection.
C19_Witness ==
  /\ mpc = "l_key"
  /\ SendFailed
  /\ Len(sent) = 1
  /\ sound_enabled
  /\ has_detections
  /\ current_playing_sound = "chiller"
  /\ play_calls = 1

\* C20. Process handle is not released under a reader: while
\* monitor_process() is between its handle check (line 140) and its uses of
\* the handle outside any try (poll at 144, returncode at 146), the handle
\* is not None.
C20_HandleHeldWhileMonitoring ==
  MainPc \in {"m_poll", "m_rc"} => process # None

\* C21. Sound follows the DangerState: with sound enabled, at the end of
\* every real-time cycle (the sound step done, the key not yet read) the
\* actuator memory is "chiller" if and only if the cycle's has_detections is
\* true.
C21_SoundFollowsDanger ==
  (sound_enabled /\ mpc = "l_key") =>
    (current_playing_sound = "chiller" <=> has_detections)

\* The alert was started in an earlier cycle and has been stopped in this
\* one, in which the detections are gone.
C21_Witness ==
  /\ sound_enabled
  /\ mpc = "l_key"
  /\ ~has_detections
  /\ current_playing_sound = "None"
  /\ play_calls = 1
  /\ stop_calls = 2

\* C22. Result queue drop-on-full: the result queue never holds more than
\* QueueMaxSize results; whenever the worker is at its put() the queue has
\* room, so the put() does not block while the program runs; and a result
\* that meets a full queue at the test of line 293 is discarded, the queue
\* being left as it was.
C22_DropStep ==
  (wpc = "w_full" /\ wpc' # wpc /\ Len(result_queue) = QueueMaxSize) =>
    /\ wpc' = "w_while"
    /\ result_queue' = result_queue

C22_ResultQueueDropOnFull ==
  /\ [](Len(result_queue) <= QueueMaxSize)
  /\ [](wpc = "w_put" => Len(result_queue) < QueueMaxSize)
  /\ []((wpc = "w_put" /\ mpc # "exit") => ENABLED worker_put)
  /\ [][C22_DropStep]_vars

\* The result of frame 3 found the results of frames 1 and 2 queued and was
\* discarded.
C22_Witness ==
  /\ wpc = "w_while"
  /\ wframe = 3
  /\ completed = <<1, 2, 3>>
  /\ Len(result_queue) = QueueMaxSize
  /\ result_queue[1].id = 1
  /\ result_queue[2].id = 2
  /\ last_completed = 2

\* C23. DangerState derivation: the read of line 390 is always able to
\* return; on an empty result queue it changes neither current_detections
\* nor has_detections; on a queued result, current_detections becomes that
\* result and has_detections is true iff the result is non-empty; and while
\* no result has been read, has_detections is false.
C23_ReadStep ==
  (mpc = "l_latest" /\ mpc' # mpc) =>
    /\ mpc' = "l_emulator"
    /\ IF result_queue = <<>>
       THEN UNCHANGED <<current_detections, has_detections, result_queue>>
       ELSE /\ current_detections' = Head(result_queue).dets
            /\ has_detections' = (Head(result_queue).dets # <<>>)

C23_DangerStateDerivation ==
  /\ [](mpc = "l_latest" => ENABLED main_latest)
  /\ [](has_detections <=> current_detections # <<>>)
  /\ [](reads = <<>> => ~has_detections)
  /\ [][C23_ReadStep]_vars

\* The alert was started in an earlier cycle on the only result read so
\* far; this cycle's read found the queue empty and has_detections is still
\* true.
C23_Witness ==
  /\ mpc = "l_emulator"
  /\ reads = <<1>>
  /\ has_detections
  /\ sound_enabled
  /\ current_playing_sound = "chiller"
  /\ play_calls = 1
  /\ result_queue = <<>>

\* C24. Shutdown is observed within one loop iteration: once a signal
\* handler has cleared running and returned, run() enters no new iteration:
\* every end of the current iteration (the 0.5 s sleep, the continue after a
\* failed spawn, after a child exit or after a handle found None, the generic
\* exception path) goes to the loop condition, the loop condition leaves the
\* loop, and under fair scheduling the loop is left (the exploration stops
\* at MaxSpawn children, so a spawn beyond them never returns).
C24_Step ==
  (~running /\ ~InHandler /\ stack' # stack /\ Len(stack') = 1) =>
    /\ stack'[1].pc # "r_ifproc"
    /\ MainPc = "r_while" => stack'[1].pc = "sp_if"
    /\ MainPc \in {"r_sleep", "r_failsleep", "r_except", "m_clear"} =>
         stack'[1].pc = "r_while"
    /\ (MainPc = "m_if" /\ process = None) => stack'[1].pc = "r_while"

C24_ShutdownObserved ==
  /\ [][C24_Step]_vars
  /\ (~running) ~> (AfterLoop \/ (MainPc = "r_start" /\ spawned = MaxSpawn))

\* One signal arrived while a child was being monitored; its handler stopped
\* the child, and the loop condition has just sent run() to its cleanup.
C24_Witness ==
  /\ ~running
  /\ nsig = 1
  /\ Len(stack) = 1
  /\ MainPc = "sp_if"
  /\ sr.result
  /\ process = None
  /\ stopped = {1}

\* C25. Restart delay ordering, as claimed: the first child start is
\* preceded by no restart_delay wait at all, and every later child start is
\* preceded by the wait of line 203, begun after the previous child's exit
\* was detected.
C25_DelayOrdering ==
  spawned >= 1 =>
    IF spawned = 1
    THEN ~last_start.delay /\ ~last_start.failwait
    ELSE last_start.delay /\ last_start.ordered

\* C25, amended. The first child start is preceded by no wait of line 203
\* (a failed spawn attempt before it is followed by the restart_delay wait
\* of line 209); every later child start is preceded by the wait of line
\* 203, begun after the previous child's exit was detected.
C25_DelayOrderingAfterFailures ==
  /\ spawned = 0 => ~since.delay
  /\ spawned >= 1 =>
       IF spawned = 1
       THEN ~last_start.delay
       ELSE last_start.delay /\ last_start.ordered

\* The second child has been started, after the wait of line 203 that
\* followed the detection of the first child's exit.
C25_Witness ==
  /\ spawned = 2
  /\ process = 2
  /\ 1 \notin alive
  /\ last_start.delay
  /\ last_start.ordered
  /\ last_start.detected
  /\ ~last_start.failwait

\* C26. At most one supervised child is alive at any time: Popen is
\* reached only with the handle None, the handle goes from a child to None
\* only when that child has exited, and no two children are ever alive
\* together.
C26_ClearStep == (process # None /\ process' = None) => process \notin alive

C26_AtMostOneChild ==
  /\ [](Cardinality(alive) <= 1)
  /\ [](MainPc = "r_start" => (process = None /\ alive = {}))
  /\ [][C26_ClearStep]_vars

\* The third child runs alone, the two before it having exited.
C26_Witness ==
  /\ spawned = 3
  /\ alive = {3}
  /\ process = 3
  /\ nsig = 0
  /\ MainPc = "m_select"

\* C27. No child is left behind: whenever run() has returned, by the
\* restart cap or after a signal, also a signal that arrived while a start
\* was in progress, no child the supervisor spawned is alive and the handle
\* is None.
C27_NoChildLeftRunning ==
  MainPc = "done" => (alive = {} /\ process = None)

\* run() has returned after a signal whose handler found no handle because
\* the start was still in progress: the child started then was stopped by
\* the cleanup of line 228.
C27_Witness ==
  /\ MainPc = "done"
  /\ nsig = 1
  /\ sig_spawned # None
  /\ sig_spawned < spawned
  /\ stopped = {spawned}
  /\ spawned \in term_req
  /\ alive = {}
  /\ process = None

\* C28. The two actuators never disagree: at the end of every cycle with
\* sound and telemetry both enabled, the payload handed to sendto() in the
\* cycle carries danger_level 50 if and only if the sound memory is
\* "chiller"; and each actuator follows has_detections whether or not the
\* other is enabled, a disabled one doing nothing.
C28_ActuatorsAgree ==
  mpc = "l_key" =>
    /\ (sound_enabled /\ emulator_enabled) =>
         /\ Len(sent) = 1
         /\ sent[1].payload = PayloadPresent <=> current_playing_sound = "chiller"
    /\ emulator_enabled =>
         /\ Len(sent) = 1
         /\ sent[1].payload = PayloadPresent <=> has_detections
    /\ sound_enabled => (current_playing_sound = "chiller" <=> has_detections)
    /\ ~emulator_enabled => sent = <<>>
    /\ ~sound_enabled => (current_playing_sound = "None" /\ play_calls = 0)

\* A cycle with both actuators enabled ends with danger_level 50 sent and
\* the alert playing.
C28_Witness ==
  /\ mpc = "l_key"
  /\ sound_enabled
  /\ emulator_enabled
  /\ has_detections
  /\ sent = <<[payload |-> PayloadPresent, delivered |-> TRUE]>>
  /\ current_playing_sound = "chiller"

====
